---- MODULE Spec2Model ----
(***************************************************************************)
(* Model of client/src/lib/drag.ts: the drag-and-drop interaction tracker. *)
(* The module-level variables of drag.ts are the state; the host document  *)
(* (tree, inline styles, event listener lists, mutation observers) is the  *)
(* environment the handlers act on.  One action is one task of the host's  *)
(* event loop: a configure call, a dispatched mouse event (with bubbling   *)
(* through every listener on the event path), a script inserting a         *)
(* subtree, or the delivery of mutation records to the observers.          *)
(***************************************************************************)
EXTENDS Integers, Sequences, FiniteSets, TLC

\* ---------------------------------------------------------------- bounds
\* Pointer coordinates are 100 * (1..MaxCoord) pixels on both axes.
MaxCoord == 2
\* Number of configureDragAndDrop calls in a run.
MaxConfigure == 2

\* ------------------------------------------------------- JavaScript values
Null == "#null"
Undefined == "#undefined"
\* A property that the options object does not have (reads as undefined).
Absent == "#absent"

\* JavaScript truthiness of the values used here (strings, null, undefined,
\* functions): only null, undefined and the empty string are falsy.
Truthy(v) == v \notin {Null, Undefined, Absent, ""}

\* Template literal `${v}`: null and undefined print as words.
TemplateStr(v) == IF v = Null THEN "null" ELSE IF v \in {Undefined, Absent} THEN "undefined" ELSE v

\* Number formatting of `${n}` for n = h / 2 (h an integer number of
\* half pixels): "175", "174.5", "-0.5".
HalfStr(h) ==
    IF h % 2 = 0 THEN ToString(h \div 2)
    ELSE LET a == IF h < 0 THEN -h ELSE h
         IN (IF h < 0 THEN "-" ELSE "") \o ToString(a \div 2) \o ".5"

Px(h) == HalfStr(h) \o "px"

\* ------------------------------------------------------------ the document
Body == "body"
Elems == {"a", "a1", "b", "b1", "n", "n1"}
Nodes == Elems \cup {Body}

\* Attributes of the elements (fixed): a, a1, n, n1 carry data-drag;
\* b and b1 carry data-drop.
AttrNames == {"data-drag", "data-drop"}
Attrs(e) ==
    CASE e \in {"a", "a1", "n", "n1"} -> {"data-drag"}
      [] e \in {"b", "b1"} -> {"data-drop"}
      [] OTHER -> {}

\* Element.hasAttribute(name)
HasAttribute(e, name) == name \in Attrs(e)

\* The consumer's callback functions.  Whether a call of one returns or
\* throws is the consumer's business and is decided per dispatched event.
Callbacks == {"fnA", "fnB"}

\* Element.getBoundingClientRect(), as <<width, height>>: the layout gives
\* every element a fixed box.
GetBoundingClientRect(e) ==
    CASE e = "a" -> <<50, 50>>
      [] e = "a1" -> <<31, 20>>
      [] e = "n" -> <<40, 30>>
      [] e = "n1" -> <<21, 10>>
      [] e = "b" -> <<300, 200>>
      [] e = "b1" -> <<120, 80>>

\* Pointer positions: clientX is one of Coords, clientY one of ClientYs.
Coords == {100 * i : i \in 1..MaxCoord}
ClientYs == {200}
\* The pointer is released at the far end of the x axis.
ReleaseXs == {100 * MaxCoord}

EmptyStyle == [width |-> "", height |-> "", top |-> "", left |-> "",
               position |-> "", display |-> ""]

Range(s) == {s[i] : i \in 1..Len(s)}

\* parentNode of e in the tree ch (Null when e is a root).
ParentOf(ch, e) ==
    IF \E p \in Nodes : e \in Range(ch[p])
    THEN CHOOSE p \in Nodes : e \in Range(ch[p])
    ELSE Null

\* The inclusive ancestor chain of e, from e upwards: the event path.
RECURSIVE PathFrom(_, _)
PathFrom(ch, e) ==
    IF e = Null THEN << >> ELSE <<e>> \o PathFrom(ch, ParentOf(ch, e))

InclusiveAncestors(ch, e) == Range(PathFrom(ch, e))

InDocument(ch, e) == Body \in InclusiveAncestors(ch, e)

\* An element is rendered when it is in the document and neither it nor an
\* ancestor has display: none.
Rendered(ch, st, e) ==
    /\ InDocument(ch, e)
    /\ \A x \in InclusiveAncestors(ch, e) \ {Body} : st[x].display # "none"

\* ------------------------------------------------------------------ state
VARIABLES
    dragMoveCallback,       \* drag.ts:29
    dragStartCallback,      \* drag.ts:30
    dragEndCallback,        \* drag.ts:31
    dropzoneAttribute,      \* drag.ts:32
    draggableAttribute,     \* drag.ts:33
    observer,               \* drag.ts:26, as the number of observers created:
                            \* observers 1..observer are all observing the body
    dragElement,            \* drag.ts:27
    dragElementRect,        \* drag.ts:28, << >> for null, else <<width, height>>
    startingMousePosition,  \* drag.ts:34, << >> for null, else <<x, y>>
    isMouseDown,            \* drag.ts:35
    isDragging,             \* drag.ts:36
    children,               \* the document: node -> sequence of child elements
    style,                  \* element -> inline style declarations
    listeners,              \* node -> event listener list, <<type, callback>> pairs
    pending,                \* observer -> queue of undelivered mutation records
    ev,                     \* the task that produced this state
    log                     \* what the handlers of that task did, in order

config == <<dragMoveCallback, dragStartCallback, dragEndCallback,
            dropzoneAttribute, draggableAttribute>>
session == <<dragElement, dragElementRect, startingMousePosition,
             isMouseDown, isDragging>>
vars == <<config, observer, session, children, style, listeners, pending, ev, log>>

Entry(op, el, arg, display) == [op |-> op, el |-> el, arg |-> arg, display |-> display]

Event(type, target, x, y) == [type |-> type, target |-> target, clientX |-> x, clientY |-> y]

\* Mutant of AddEventListener: the listener is appended whatever the list
\* holds.
AppendListener(ls, type, callback) == Append(ls, <<type, callback>>)

\* ------------------------------------------------------------ host platform
\* EventTarget.addEventListener: the listener is appended unless the list
\* already holds one with the same type and callback (and capture flag).
AddEventListener(ls, type, callback) ==
    IF <<type, callback>> \in Range(ls) THEN ls ELSE Append(ls, <<type, callback>>)

\* CSSStyleDeclaration.display = value: a value that is no display keyword is
\* dropped by the CSS parser and the declaration keeps its old value.
DisplayKeywords == {"none", "block", "inline", "inline-block", "flex", "grid", "contents"}
SetDisplay(st, e, value) ==
    IF value \in DisplayKeywords \cup {""} THEN [st EXCEPT ![e].display = value] ELSE st

\* document.querySelectorAll(`[${attr}]`): the elements in the document that
\* have the attribute.
QuerySelectorAll(ch, attr) ==
    {e \in Elems : InDocument(ch, e) /\ HasAttribute(e, TemplateStr(attr))}

\* Mutant of Closest: the element itself when no inclusive ancestor has the
\* attribute.
ClosestOrSelf(ch, e, attr) ==
    LET marked == {z \in InclusiveAncestors(ch, e) : HasAttribute(z, TemplateStr(attr))}
    IN IF marked = {} THEN e
       ELSE CHOOSE z \in marked : \A y \in marked : y \in InclusiveAncestors(ch, z)

\* Element.closest(`[${attr}]`): the first inclusive ancestor with the attribute.
Closest(ch, e, attr) ==
    LET path == PathFrom(ch, e)
        hits == {i \in 1..Len(path) : HasAttribute(path[i], TemplateStr(attr))}
    IN IF hits = {} THEN Null
       ELSE path[CHOOSE i \in hits : \A j \in hits : i <= j]

\* Mutant of ElementFromPoint: the topmost element at the point, rendered or
\* not.
ElementFromPointAny(ch, st, stack) ==
    IF stack = << >> THEN Null ELSE stack[1]

\* document.elementFromPoint: the topmost rendered element of the elements
\* stacked at the point (stack is topmost first), null when there is none.
ElementFromPoint(ch, st, stack) ==
    LET shown == {i \in 1..Len(stack) : Rendered(ch, st, stack[i])}
    IN IF shown = {} THEN Null
       ELSE stack[CHOOSE i \in shown : \A j \in shown : i <= j]

RemoveFrom(s, e) == SelectSeq(s, LAMBDA x : x # e)

\* Node.appendChild(e) on zone is refused (HierarchyRequestError) when zone is
\* e or lies inside e.
AppendChildAllowed(ch, zone, e) == e \notin InclusiveAncestors(ch, zone)

\* The tree after zone.appendChild(e): e leaves its parent and becomes the
\* last child of zone.
AppendChild(ch, zone, e) ==
    LET removed == [p \in Nodes |-> RemoveFrom(ch[p], e)]
    IN [removed EXCEPT ![zone] = Append(@, e)]

\* A change record, reduced to what mutationCallback reads.
Record(added) == [addedNodes |-> added]

\* Each observer of the body gets the records of a tree change.
Queue(pend, records) == [i \in 1..Len(pend) |-> pend[i] \o records]

\* ---------------------------------------------------------------- handlers
\* The handlers work on m, the state while an event is being dispatched:
\* the session variables, the document and the log.  evt carries the
\* event's coordinates and what the platform answers to the handler's
\* query: stack (the elements at the point), and whether a consumer
\* callback called during the dispatch throws.

\* drag.ts:161-170
MoveElementToCursor(st, element, rect, evt) ==
    LET x2 == 2 * evt.clientX - rect[1]
        y2 == 2 * evt.clientY - rect[2]
    IN [st EXCEPT ![element].top = Px(y2), ![element].left = Px(x2)]

\* drag.ts:99-113
DragStart(m, currentTarget, evt) ==
    LET m1 == [m EXCEPT !.isDragging = FALSE,
                        !.isMouseDown = TRUE,
                        !.dragElement = currentTarget,
                        !.dragElementRect = GetBoundingClientRect(currentTarget),
                        !.log = Append(@, Entry("dragStart", currentTarget, m.dragElement, ""))]
        el == m1.dragElement
        rect == m1.dragElementRect
        called == [m1 EXCEPT !.log = Append(@, Entry("dragStartCallback", el, Null,
                                                      m1.style[el].position))]
        st1 == [m1.style EXCEPT ![el].width = Px(2 * rect[1]),
                                ![el].height = Px(2 * rect[2])]
        st2 == MoveElementToCursor(st1, el, rect, evt)
        st3 == [st2 EXCEPT ![el].position = "absolute"]
        rest(mm) == [mm EXCEPT !.style = st3,
                               !.startingMousePosition = <<evt.clientX, evt.clientY>>]
    IN IF Truthy(dragStartCallback)
       THEN IF evt.throws
            THEN [called EXCEPT !.log = Append(@, Entry("uncaught", el, "dragStart", ""))]
            ELSE rest(called)
       ELSE rest(m1)

\* Mutant of DragMove: with no subject recorded, or the pointer not pressed,
\* the element under the pointer is moved.
DragMoveHover(m, currentTarget, evt) ==
    LET idle == ~(m.dragElement # Null /\ m.dragElementRect # << >> /\ m.isMouseDown)
        el == IF idle THEN currentTarget ELSE m.dragElement
        rect == IF idle THEN GetBoundingClientRect(currentTarget) ELSE m.dragElementRect
        m1 == [m EXCEPT !.isDragging = TRUE,
                        !.style = MoveElementToCursor(@, el, rect, evt)]
        called == [m1 EXCEPT !.log = Append(@, Entry("dragMoveCallback", el, Null, ""))]
    IN IF Truthy(dragMoveCallback)
       THEN IF evt.throws
            THEN [called EXCEPT !.log = Append(@, Entry("uncaught", el, "dragMove", ""))]
            ELSE called
       ELSE m1

\* drag.ts:147-159
DragMove(m, currentTarget, evt) ==
    IF m.dragElement # Null /\ m.dragElementRect # << >> /\ m.isMouseDown
    THEN LET el == m.dragElement
             m1 == [m EXCEPT !.isDragging = TRUE,
                             !.style = MoveElementToCursor(@, el, m.dragElementRect, evt)]
             called == [m1 EXCEPT !.log = Append(@, Entry("dragMoveCallback", el, Null, ""))]
         IN IF Truthy(dragMoveCallback)
            THEN IF evt.throws
                 THEN [called EXCEPT !.log = Append(@, Entry("uncaught", el, "dragMove", ""))]
                 ELSE called
            ELSE m1
    ELSE m

\* Mutant of EndSession: the has-moved flag is reset with the session.
EndSessionAndFlag(m) ==
    [m EXCEPT !.style = [@ EXCEPT ![m.dragElement] = EmptyStyle],
              !.dragElement = Null,
              !.dragElementRect = << >>,
              !.startingMousePosition = << >>,
              !.isDragging = FALSE]

\* Mutant of EndSession: the subject keeps its inline styles.
EndSessionKeepStyle(m) ==
    [m EXCEPT !.dragElement = Null,
              !.dragElementRect = << >>,
              !.startingMousePosition = << >>]

\* drag.ts:141-144
EndSession(m) ==
    [m EXCEPT !.style = [@ EXCEPT ![m.dragElement] = EmptyStyle],
              !.dragElement = Null,
              !.dragElementRect = << >>,
              !.startingMousePosition = << >>]

\* drag.ts:115-145
DragEnd(m, currentTarget, evt) ==
    LET el == m.dragElement
        m0 == [m EXCEPT !.isMouseDown = FALSE]
        hidden == SetDisplay(m.style, el, "none")
        elUnderCursor == ElementFromPoint(m.children, hidden, evt.stack)
        shown == SetDisplay(hidden, el, "visible")
        m1 == [m0 EXCEPT !.style = shown,
                         !.log = Append(@, Entry("elementFromPoint", elUnderCursor, el, ""))]
        dropzoneElement == IF elUnderCursor = Null THEN Null
                           ELSE Closest(m.children, elUnderCursor, dropzoneAttribute)
        appended == [m1 EXCEPT
                        !.children = AppendChild(@, dropzoneElement, el),
                        !.pending = Queue(@, <<Record(<< >>), Record(<<el>>)>>),
                        !.log = Append(@, Entry("appendChild", el, dropzoneElement,
                                                 shown[el].display))]
        called == [appended EXCEPT
                        !.log = Append(@, Entry("dragEndCallback", el, dropzoneElement,
                                                 shown[el].display))]
    IN IF el = Null THEN m0
       ELSE IF dropzoneElement = Null THEN EndSession(m1)
       ELSE IF ~AppendChildAllowed(m.children, dropzoneElement, el)
            THEN [m1 EXCEPT !.log = Append(@, Entry("uncaught", el, "appendChild", ""))]
       ELSE IF Truthy(dragEndCallback)
            THEN IF evt.throws
                 THEN [called EXCEPT !.log = Append(@, Entry("uncaught", el, "dragEnd", ""))]
                 ELSE EndSession(called)
       ELSE EndSession(appended)

\* drag.ts:93-97
AddEventListeners(ls, element) ==
    LET l1 == AddEventListener(ls[element], "mousedown", "dragStart")
        l2 == AddEventListener(l1, "mouseup", "dragEnd")
        l3 == AddEventListener(l2, "mousemove", "dragMove")
    IN [ls EXCEPT ![element] = l3]

\* drag.ts:60-63
RECURSIVE AttachAll(_, _)
AttachAll(ls, elements) ==
    IF elements = {} THEN ls
    ELSE LET e == CHOOSE x \in elements : TRUE
         IN AttachAll(AddEventListeners(ls, e), elements \ {e})

\* Mutant of ScanAddedNodes: the subtree of each added node is searched for
\* elements with the attribute.
RECURSIVE ScanAddedSubtrees(_, _, _)
ScanAddedSubtrees(ls, addedNodes, i) ==
    IF i > Len(addedNodes) THEN ls
    ELSE LET inside == {d \in Elems :
                          /\ addedNodes[i] \in InclusiveAncestors(children, d)
                          /\ HasAttribute(d, TemplateStr(draggableAttribute))}
         IN ScanAddedSubtrees(AttachAll(ls, inside), addedNodes, i + 1)

\* drag.ts:76-91
RECURSIVE ScanAddedNodes(_, _, _)
ScanAddedNodes(ls, addedNodes, i) ==
    IF i > Len(addedNodes) THEN ls
    ELSE LET addedNode == addedNodes[i]
             ls1 == IF addedNode \in Elems
                       /\ HasAttribute(addedNode, TemplateStr(draggableAttribute))
                    THEN AddEventListeners(ls, addedNode)
                    ELSE ls
         IN ScanAddedNodes(ls1, addedNodes, i + 1)

\* Mutant of MutationCallback: a change of the document while a subject is
\* recorded cancels the drag, as the end of dragEnd does.
RECURSIVE MutationCallbackCancelsDrag(_, _)
MutationCallbackCancelsDrag(m, records) ==
    IF records = << >> THEN m
    ELSE LET m1 == [m EXCEPT !.listeners = ScanAddedNodes(@, Head(records).addedNodes, 1)]
             m2 == IF m1.dragElement = Null THEN m1
                   ELSE [m1 EXCEPT !.style = [@ EXCEPT ![m1.dragElement] = EmptyStyle],
                                   !.dragElement = Null,
                                   !.dragElementRect = << >>,
                                   !.startingMousePosition = << >>]
         IN MutationCallbackCancelsDrag(m2, Tail(records))

\* mutationCallback on the state m of the program and the document: of all
\* of it, the loop touches the listener lists of added nodes.
RECURSIVE MutationCallback(_, _)
MutationCallback(m, records) ==
    IF records = << >> THEN m
    ELSE MutationCallback([m EXCEPT !.listeners =
                                ScanAddedNodes(@, Head(records).addedNodes, 1)],
                          Tail(records))

\* Mutant of Handler: the pointer-up handler runs only after a drag that moved.
HandlerAfterMove(m, callback, currentTarget, evt) ==
    CASE callback = "dragStart" -> DragStart(m, currentTarget, evt)
      [] callback = "dragEnd" ->
            IF m.isDragging THEN DragEnd(m, currentTarget, evt)
            ELSE [m EXCEPT !.isMouseDown = FALSE]
      [] callback = "dragMove" -> DragMove(m, currentTarget, evt)

\* Mutant of Handler: a pointer-up with no subject also resets the has-moved
\* flag.
HandlerIdleUpResets(m, callback, currentTarget, evt) ==
    CASE callback = "dragStart" -> DragStart(m, currentTarget, evt)
      [] callback = "dragEnd" ->
            IF m.dragElement = Null
            THEN [m EXCEPT !.isMouseDown = FALSE, !.isDragging = FALSE]
            ELSE DragEnd(m, currentTarget, evt)
      [] callback = "dragMove" -> DragMove(m, currentTarget, evt)

\* The observers with queued records get them, in the order the observers
\* were created; each runs mutationCallback once on its queue pend[i].
RECURSIVE NotifyFrom(_, _, _)
NotifyFrom(m, pend, i) ==
    IF i > Len(pend) THEN m
    ELSE IF pend[i] = << >> THEN NotifyFrom(m, pend, i + 1)
    ELSE NotifyFrom([MutationCallback(m, pend[i]) EXCEPT
                        !.log = Append(@, Entry("mutationCallback", Null, ToString(i), ""))],
                    pend, i + 1)

\* The microtask checkpoint that follows a listener of a dispatched event:
\* the records queued so far are delivered before the next listener runs.
Checkpoint(m) ==
    [NotifyFrom(m, m.pending, 1) EXCEPT !.pending = [i \in 1..Len(m.pending) |-> << >>]]

\* ------------------------------------------------------------ event dispatch
Handler(m, callback, currentTarget, evt) ==
    CASE callback = "dragStart" -> DragStart(m, currentTarget, evt)
      [] callback = "dragEnd" -> DragEnd(m, currentTarget, evt)
      [] callback = "dragMove" -> DragMove(m, currentTarget, evt)

\* The listeners of one node for the event's type, in the order they were
\* added.  An exception a listener throws is reported and the next listener
\* still runs.  The records a listener queued are delivered when it is left,
\* that is before the next listener of the event runs; those of the last
\* listener are delivered by Notify.
RECURSIVE RunListeners(_, _, _, _, _)
RunListeners(m, ls, type, currentTarget, evt) ==
    IF ls = << >> THEN m
    ELSE LET m1 == IF Head(ls)[1] = type
                   THEN Handler(Checkpoint(m), Head(ls)[2], currentTarget, evt)
                   ELSE m
         IN RunListeners(m1, Tail(ls), type, currentTarget, evt)

\* Bubbling: the event visits the target and then each ancestor; the path is
\* fixed before the first listener runs, and a node's listeners are those it
\* has when the event reaches it.
RECURSIVE DispatchEvent(_, _, _, _)
DispatchEvent(m, path, type, evt) ==
    IF path = << >> THEN m
    ELSE DispatchEvent(RunListeners(m, m.listeners[Head(path)], type, Head(path), evt),
                       Tail(path), type, evt)

Machine ==
    [dragElement |-> dragElement, dragElementRect |-> dragElementRect,
     startingMousePosition |-> startingMousePosition,
     isMouseDown |-> isMouseDown, isDragging |-> isDragging,
     children |-> children, style |-> style, listeners |-> listeners,
     pending |-> pending, log |-> << >>]

Commit(m) ==
    /\ dragElement' = m.dragElement
    /\ dragElementRect' = m.dragElementRect
    /\ startingMousePosition' = m.startingMousePosition
    /\ isMouseDown' = m.isMouseDown
    /\ isDragging' = m.isDragging
    /\ children' = m.children
    /\ style' = m.style
    /\ listeners' = m.listeners
    /\ pending' = m.pending
    /\ log' = m.log

\* Mutation records are delivered at the end of the task that queued them,
\* before the next input event is dispatched.
NoPending == \A i \in 1..Len(pending) : pending[i] = << >>

\* The stacks of elements the pointer can be over at a mouse-up, topmost
\* first: nothing, or one element (with the body behind it).
Stacks ==
    {<< >>} \cup {<<e, Body>> : e \in {x \in Elems : Rendered(children, style, x)}}

\* ------------------------------------------------------------------ actions
Init ==
    /\ dragMoveCallback = Null
    /\ dragStartCallback = Null
    /\ dragEndCallback = Null
    /\ dropzoneAttribute = Null
    /\ draggableAttribute = Null
    /\ observer = 0
    /\ dragElement = Null
    /\ dragElementRect = << >>
    /\ startingMousePosition = << >>
    /\ isMouseDown = FALSE
    /\ isDragging = FALSE
    /\ children = [p \in Nodes |->
                     CASE p = Body -> <<"a", "b">>
                       [] p = "a" -> <<"a1">>
                       [] p = "b" -> <<"b1">>
                       [] p = "n" -> <<"n1">>
                       [] OTHER -> << >>]
    /\ style = [e \in Elems |-> EmptyStyle]
    /\ listeners = [p \in Nodes |-> << >>]
    /\ pending = << >>
    /\ ev = Event("init", Null, 0, 0)
    /\ log = << >>

\* The options objects: a field is a value, or one of the ways of not
\* being one (not there, null, undefined, the empty string).
DragOptions ==
    [dragMoveCallback : {Absent, "fnA"},
     dragStartCallback : {Null} \cup Callbacks,
     dragEndCallback : {Undefined, "fnA"},
     dropzoneAttribute : {""} \cup AttrNames,
     draggableAttribute : {Absent} \cup AttrNames]

\* Mutant of Merge: a field that is there overwrites, whatever its value.
MergePresent(old, supplied) == IF supplied = Absent THEN old ELSE supplied

\* drag.ts:39-53, one field
Merge(old, supplied) == IF Truthy(supplied) THEN supplied ELSE old

Fields == {"dragMoveCallback", "dragStartCallback", "dragEndCallback",
           "dropzoneAttribute", "draggableAttribute"}

\* The assignments of drag.ts:39-53 that a call with these options runs, in
\* the order of the source: el is the value assigned, arg the variable.
Assignments(dragOptions) ==
    LET order == <<"dragMoveCallback", "dragStartCallback", "dragEndCallback",
                   "dropzoneAttribute", "draggableAttribute">>
        taken == SelectSeq(order, LAMBDA f : Truthy(dragOptions[f]))
    IN [i \in 1..Len(taken) |-> Entry("assign", dragOptions[taken[i]], taken[i], "")]

\* drag.ts:72-73: a new observer of the body; the earlier ones keep observing.
Observe(n) == n + 1

\* drag.ts:38-74
Configure(dragOptions) ==
    /\ observer < MaxConfigure
    /\ dragMoveCallback' = Merge(dragMoveCallback, dragOptions.dragMoveCallback)
    /\ dragStartCallback' = Merge(dragStartCallback, dragOptions.dragStartCallback)
    /\ dragEndCallback' = Merge(dragEndCallback, dragOptions.dragEndCallback)
    /\ dropzoneAttribute' = Merge(dropzoneAttribute, dragOptions.dropzoneAttribute)
    /\ draggableAttribute' = Merge(draggableAttribute, dragOptions.draggableAttribute)
    /\ LET elements == QuerySelectorAll(children, draggableAttribute')
       IN /\ listeners' = AttachAll(listeners, elements)
          /\ log' = Assignments(dragOptions)
                       \o (IF elements = {} THEN <<Entry("warn", Null, Null, "")>> ELSE << >>)
    /\ observer' = Observe(observer)
    /\ pending' = pending \o [i \in 1..(observer' - observer) |-> << >>]
    /\ ev' = Event("configure", Null, 0, 0)
    /\ UNCHANGED <<session, children, style>>

\* A script of the page inserts the detached subtree rooted at root as the
\* last child of parent.
Insert(root, parent) ==
    /\ ParentOf(children, root) = Null
    /\ InDocument(children, parent)
    /\ children' = AppendChild(children, parent, root)
    /\ pending' = Queue(pending, <<Record(<<root>>)>>)
    /\ ev' = Event("insert", root, 0, 0)
    /\ log' = << >>
    /\ UNCHANGED <<config, observer, session, style, listeners>>

Notify ==
    /\ ~NoPending
    /\ LET m == Checkpoint(Machine)
       IN Commit(m)
    /\ ev' = Event("notify", Null, 0, 0)
    /\ UNCHANGED <<config, observer>>

\* Some listener on the event path handles the type: an event nobody listens
\* to runs no code of the module.
Handled(target, type) ==
    \E node \in InclusiveAncestors(children, target) :
        \E l \in Range(listeners[node]) : l[1] = type

MouseDown(target, x, y, throws) ==
    /\ NoPending
    /\ Rendered(children, style, target)
    /\ Handled(target, "mousedown")
    /\ LET m == DispatchEvent(Machine, PathFrom(children, target), "mousedown",
                              [clientX |-> x, clientY |-> y, stack |-> << >>, throws |-> throws])
       IN Commit(m)
    /\ ev' = Event("mousedown", target, x, y)
    /\ UNCHANGED <<config, observer>>

MouseMove(target, x, y, throws) ==
    /\ NoPending
    /\ Rendered(children, style, target)
    /\ Handled(target, "mousemove")
    /\ LET m == DispatchEvent(Machine, PathFrom(children, target), "mousemove",
                              [clientX |-> x, clientY |-> y, stack |-> << >>, throws |-> throws])
       IN Commit(m)
    /\ ev' = Event("mousemove", target, x, y)
    /\ UNCHANGED <<config, observer>>

MouseUp(target, x, y, stack, throws) ==
    /\ NoPending
    /\ Rendered(children, style, target)
    /\ Handled(target, "mouseup")
    /\ stack \in Stacks
    /\ LET m == DispatchEvent(Machine, PathFrom(children, target), "mouseup",
                              [clientX |-> x, clientY |-> y, stack |-> stack, throws |-> throws])
       IN Commit(m)
    /\ ev' = Event("mouseup", target, x, y)
    /\ UNCHANGED <<config, observer>>

\* Where the page's script inserts the detached subtree.
InsertParents == {Body}

\* The options of a page that drags data-drag elements into data-drop
\* elements: it passes the two attribute names, with all three callbacks or
\* with none.
DragSetups ==
    {[dragMoveCallback |-> cb, dragStartCallback |-> cb, dragEndCallback |-> cb,
      dropzoneAttribute |-> "data-drop", draggableAttribute |-> "data-drag"] :
        cb \in {Absent, "fnA"}}

\* What a call of the callback cb can do: return, or throw.
Outcomes(cb) == IF Truthy(cb) THEN BOOLEAN ELSE {FALSE}

\* A page whose draggable elements are all there when it is configured.
Next ==
    \/ \E o \in DragSetups : Configure(o)
    \/ Notify
    \/ \E t \in Elems, x \in Coords, y \in ClientYs, th \in Outcomes(dragStartCallback) :
          MouseDown(t, x, y, th)
    \/ \E t \in Elems, x \in Coords, y \in ClientYs, th \in Outcomes(dragMoveCallback) :
          MouseMove(t, x, y, th)
    \/ \E t \in Elems, x \in ReleaseXs, y \in ClientYs, th \in Outcomes(dragEndCallback) :
          \E s \in Stacks : MouseUp(t, x, y, s, th)

Spec == Init /\ [][Next]_vars

\* A page that inserts a subtree of draggable elements after it was
\* configured, and presses the pointer on them.
NextWatch ==
    \/ \E o \in DragSetups : Configure(o)
    \/ \E p \in InsertParents : Insert("n", p)
    \/ Notify
    \/ \E t \in Elems, x \in Coords, y \in ClientYs, th \in Outcomes(dragStartCallback) :
          MouseDown(t, x, y, th)

SpecWatch == Init /\ [][NextWatch]_vars

\* The options of a page that passes the two attribute names and no callback.
PlainSetups == {o \in DragSetups : o.dragEndCallback = Absent}

\* The page of the interleaved runs: a (with a1 inside) and the dropzone b in
\* the body; n (with n1 inside) and b1 are created by the script and not
\* inserted yet.
InitInterleaved ==
    /\ dragMoveCallback = Null
    /\ dragStartCallback = Null
    /\ dragEndCallback = Null
    /\ dropzoneAttribute = Null
    /\ draggableAttribute = Null
    /\ observer = 0
    /\ dragElement = Null
    /\ dragElementRect = << >>
    /\ startingMousePosition = << >>
    /\ isMouseDown = FALSE
    /\ isDragging = FALSE
    /\ children = [p \in Nodes |->
                     CASE p = Body -> <<"a", "b">>
                       [] p = "a" -> <<"a1">>
                       [] p = "n" -> <<"n1">>
                       [] OTHER -> << >>]
    /\ style = [e \in Elems |-> EmptyStyle]
    /\ listeners = [p \in Nodes |-> << >>]
    /\ pending = << >>
    /\ ev = Event("init", Null, 0, 0)
    /\ log = << >>

\* A page whose script inserts draggable elements at any time: before, during
\* and after the drags of the user.  The pointer can be over any element, so
\* an event on a1 or n1 bubbles to the listeners of a or n as well; it is
\* pressed, moved and released at the one point of ReleaseXs.
NextInterleaved ==
    \/ \E o \in PlainSetups : Configure(o)
    \/ \E p \in InsertParents : Insert("n", p)
    \/ Notify
    \/ \E t \in Elems, x \in ReleaseXs, y \in ClientYs : MouseDown(t, x, y, FALSE)
    \/ \E t \in Elems, x \in ReleaseXs, y \in ClientYs : MouseMove(t, x, y, FALSE)
    \/ \E t \in Elems, x \in ReleaseXs, y \in ClientYs :
          \E s \in Stacks : MouseUp(t, x, y, s, FALSE)

SpecInterleaved == InitInterleaved /\ [][NextInterleaved]_vars

\* Configure calls with every shape of options object.
NextConfigure == \E o \in DragOptions : Configure(o)

SpecConfigure == Init /\ [][NextConfigure]_vars

\* ------------------------------------------------------------ properties
Count(op) == Cardinality({i \in 1..Len(log) : log[i].op = op})

\* The element has the pointer-down listener of the module.
Tracked(ls, e) == <<"mousedown", "dragStart">> \in Range(ls[e])

\* The runs of the pointer-up handler that had a subject, as positions of the
\* log: each made one hit test.
HitTests == {i \in 1..Len(log) : log[i].op = "elementFromPoint"}

\* The nodes with the dropzone marker on the chain from e upwards.
MarkedAbove(ch, e) ==
    IF e = Null THEN {}
    ELSE {z \in InclusiveAncestors(ch, e) : HasAttribute(z, TemplateStr(dropzoneAttribute))}

\* z is the nearest of them: each of them is z or an ancestor of z.
IsNearestDropzone(ch, e, z) ==
    /\ z \in MarkedAbove(ch, e)
    /\ \A y \in MarkedAbove(ch, e) : y \in InclusiveAncestors(ch, z)

\* The options of a page whose draggable elements are dropzones as well (a
\* sortable tree): data-drag is both names, or the dropzones are the
\* data-drop elements.
NestedSetups ==
    {[dragMoveCallback |-> Absent, dragStartCallback |-> Absent, dragEndCallback |-> cb,
      dropzoneAttribute |-> zone, draggableAttribute |-> "data-drag"] :
        cb \in {Absent, "fnA"}, zone \in AttrNames}

\* Such a page: elements are pressed and released over any element.
NextNested ==
    \/ \E o \in NestedSetups : Configure(o)
    \/ Notify
    \/ \E t \in Elems, x \in Coords, y \in ClientYs : MouseDown(t, x, y, FALSE)
    \/ \E t \in Elems, x \in ReleaseXs, y \in ClientYs, th \in Outcomes(dragEndCallback) :
          \E s \in Stacks : MouseUp(t, x, y, s, th)

SpecNested == Init /\ [][NextNested]_vars

\* The number of places e has among the children of the nodes.
Places(ch, e) ==
    Cardinality({<<p, i>> \in Nodes \X (1..Cardinality(Elems)) :
                    i <= Len(ch[p]) /\ ch[p][i] = e})

\* The elements of the subtree rooted at e.  A node above e is found by
\* climbing at most as many parents as there are nodes, so the set is defined
\* on any parent relation.
RECURSIVE Above(_, _, _)
Above(ch, e, k) ==
    IF k = 0 \/ e = Null THEN {}
    ELSE {e} \cup Above(ch, ParentOf(ch, e), k - 1)

Subtree(ch, e) == {d \in Elems : e \in Above(ch, d, Cardinality(Nodes))}

\* C1: a pointer-down on a tracked element calls the configured drag-start
\* callback exactly once, and when no handler was aborted the element's
\* inline position is "absolute" afterwards.
C1_StartCallbackOnce ==
    (ev.type = "mousedown" /\ Tracked(listeners, ev.target) /\ Truthy(dragStartCallback))
        => /\ Count("dragStartCallback") = 1
           /\ (Count("uncaught") = 0 => style[ev.target].position = "absolute")

\* C2: after a pointer-down or a pointer-move, while the pointer is pressed
\* on a subject, the subject's left and top are the pointer position minus
\* half the captured width and height.
C2_CenteredAlways ==
    (ev.type \in {"mousedown", "mousemove"} /\ dragElement # Null /\ isMouseDown)
        => /\ style[dragElement].left = Px(2 * ev.clientX - dragElementRect[1])
           /\ style[dragElement].top = Px(2 * ev.clientY - dragElementRect[2])

\* C2 where no handler is aborted: the same after every pointer-move, and
\* after a pointer-down whose drag-start callback returned; a pointer-move
\* changes neither the subject, the captured rectangle nor the subject's
\* inline width and height.
C2_Centered ==
    [][(ev'.type \in {"mousedown", "mousemove"} /\ dragElement' # Null /\ isMouseDown'
        /\ ~(ev'.type = "mousedown" /\ \E i \in 1..Len(log') : log'[i].op = "uncaught"))
        => /\ style'[dragElement'].left = Px(2 * ev'.clientX - dragElementRect'[1])
           /\ style'[dragElement'].top = Px(2 * ev'.clientY - dragElementRect'[2])
           /\ ev'.type = "mousemove"
                => /\ dragElement' = dragElement
                   /\ dragElementRect' = dragElementRect
                   /\ style'[dragElement'].width = style[dragElement].width
                   /\ style'[dragElement'].height = style[dragElement].height]_vars

\* C2, the centred case: the 50x50 element a, pressed and then moved to (200, 200), is
\* at top 175px, left 175px with its width and height fixed at 50px.
C2_Witness ==
    /\ ev = Event("mousemove", "a", 200, 200)
    /\ dragElement = "a"
    /\ isMouseDown
    /\ dragElementRect = <<50, 50>>
    /\ startingMousePosition = <<100, 200>>
    /\ style["a"] = [width |-> "50px", height |-> "50px", top |-> "175px",
                     left |-> "175px", position |-> "absolute", display |-> ""]

\* C3: a pointer-up with a subject whose hit test lands in a dropzone makes the
\* subject the last child of the nearest dropzone above the hit element, and
\* the configured drop callback is called exactly once, with that pair.
C3_DropOnce ==
    (ev.type = "mouseup" /\ HitTests # {})
        => \A i \in HitTests :
              MarkedAbove(children, log[i].el) # {}
                => \E z \in Nodes :
                      /\ IsNearestDropzone(children, log[i].el, z)
                      /\ children[z] # << >>
                      /\ children[z][Len(children[z])] = log[i].arg
                      /\ Truthy(dragEndCallback)
                            => /\ Count("dragEndCallback") = 1
                               /\ \E j \in 1..Len(log) :
                                     log[j] = Entry("dragEndCallback", log[i].arg, z,
                                                    log[j].display)

\* C4: a pointer-up whose hit test finds nothing, or an element with no
\* dropzone above it, leaves the tree as it is and calls no drop callback;
\* and the drop callback is only ever called right after a reparenting.
C4_NoDropNoCallback ==
    [][ev'.type = "mouseup"
        => /\ \A j \in 1..Len(log') :
                 log'[j].op = "dragEndCallback"
                    => /\ j > 1
                       /\ log'[j - 1] = Entry("appendChild", log'[j].el, log'[j].arg,
                                              log'[j - 1].display)
           /\ (\A i \in 1..Len(log') :
                  log'[i].op = "elementFromPoint" => MarkedAbove(children, log'[i].el) = {})
                 => /\ children' = children
                    /\ \A j \in 1..Len(log') : log'[j].op # "dragEndCallback"]_vars

\* C4 witness: a, dropped into b earlier, is released over the body with a
\* drop callback configured: no drop, and a is still in b.
C4_Witness ==
    /\ ev.type = "mouseup"
    /\ Truthy(dragEndCallback)
    /\ \E i \in HitTests : log[i].el = Body /\ log[i].arg = "a"
    /\ Count("dragEndCallback") = 0
    /\ ParentOf(children, "a") = "b"
    /\ dragElement = Null

\* C5: a pointer-up handled with a subject ends the session whatever happens
\* in it: no subject, rectangle or starting position, not pressed, and the
\* inline styles of the element that was the subject are all removed.
C5_SessionAlwaysEnded ==
    (ev.type = "mouseup" /\ HitTests # {})
        => /\ dragElement = Null
           /\ dragElementRect = << >>
           /\ startingMousePosition = << >>
           /\ ~isMouseDown
           /\ \A i \in HitTests : style[log[i].arg] = EmptyStyle

\* C6: the pointer-down handler never runs while a subject is recorded.
C6_SingleSession ==
    \A i \in 1..Len(log) : log[i].op = "dragStart" => log[i].arg = Null

\* C7: the has-moved flag is false after every pointer-down, true after a
\* pointer-move handled while pressed with a subject, unchanged by pointer-up,
\* and only a pointer-down ever makes it false again.
C7_HasMovedFlag ==
    [][/\ ev'.type = "mousedown" => ~isDragging'
       /\ (ev'.type = "mousemove" /\ isMouseDown /\ dragElement # Null) => isDragging'
       /\ ev'.type = "mouseup" => isDragging' = isDragging
       /\ (ev'.type # "mousedown" /\ isDragging) => isDragging']_vars

\* C7 witness: after a drag with a move has ended in a drop, and the records
\* of the drop were delivered, the flag is still true.
C7_Witness ==
    /\ ev.type = "notify"
    /\ isDragging
    /\ dragElement = Null
    /\ ~isMouseDown
    /\ ParentOf(children, "a") = "b1"

\* The elements that are top-level added nodes of an undelivered record.
TopLevelAdded ==
    {e \in Elems : \E i \in 1..Len(pending) : \E k \in 1..Len(pending[i]) :
                      e \in Range(pending[i][k].addedNodes)}

\* C8: a delivery of mutation records makes tracked exactly the top-level
\* added elements that carry the draggable marker (a marked descendant of an
\* inserted subtree is not among them), and a pointer-down starts a drag of
\* exactly the tracked elements on its path.
C8_WatcherTracksTopLevel ==
    [][/\ ev'.type = "notify"
            => \A e \in Elems :
                  Tracked(listeners', e)
                     <=> \/ Tracked(listeners, e)
                         \/ e \in TopLevelAdded /\ draggableAttribute \in Attrs(e)
       /\ ev'.type = "mousedown"
            => \A e \in Elems :
                  (\E i \in 1..Len(log') : log'[i].op = "dragStart" /\ log'[i].el = e)
                     <=> /\ Tracked(listeners, e)
                         /\ e \in InclusiveAncestors(children, ev'.target)]_vars

\* C8 witness: after one configure call, the inserted n is tracked and its
\* marked child n1 is not; a pointer-down on n1 has started a drag of n.
C8_Witness ==
    /\ observer = 1
    /\ ev.type = "mousedown"
    /\ ev.target = "n1"
    /\ dragElement = "n"
    /\ "data-drag" \in Attrs("n1")
    /\ Tracked(listeners, "n")
    /\ ~Tracked(listeners, "n1")
    /\ Tracked(listeners, "a")

FieldValue(f) ==
    CASE f = "dragMoveCallback" -> dragMoveCallback
      [] f = "dragStartCallback" -> dragStartCallback
      [] f = "dragEndCallback" -> dragEndCallback
      [] f = "dropzoneAttribute" -> dropzoneAttribute
      [] f = "draggableAttribute" -> draggableAttribute

\* C9: a configure call changes exactly the fields its options supply with a
\* value (neither null, undefined nor empty), each to the value supplied;
\* every other field keeps the value it had.
C9_ConfigureMerges ==
    [][ev'.type = "configure"
        => \A f \in Fields :
              LET supplied == {log'[i].el : i \in {k \in 1..Len(log') :
                                  log'[k].op = "assign" /\ log'[k].arg = f}}
              IN IF supplied = {}
                 THEN FieldValue(f)' = FieldValue(f)
                 ELSE /\ supplied = {FieldValue(f)'}
                      /\ FieldValue(f)' \notin {Absent, Null, Undefined, ""}]_vars

Assigned(f) == \E i \in 1..Len(log) : log[i].op = "assign" /\ log[i].arg = f

\* C9 witness: a second configure call that supplied a start callback and a
\* dropzone name and no move callback, drop callback or draggable name: the
\* three keep the values of the first call.
C9_Witness ==
    /\ observer = 2
    /\ ev.type = "configure"
    /\ Assigned("dragStartCallback") /\ dragStartCallback = "fnB"
    /\ Assigned("dropzoneAttribute") /\ dropzoneAttribute = "data-drag"
    /\ ~Assigned("dragEndCallback") /\ dragEndCallback = "fnA"
    /\ ~Assigned("dragMoveCallback") /\ dragMoveCallback = "fnA"
    /\ ~Assigned("draggableAttribute") /\ draggableAttribute = "data-drop"

\* C10: at most one watcher observes the document, however often configure
\* was called, and a delivery runs the mutation callback once.
C10_SingleWatcher ==
    /\ observer <= 1
    /\ ev.type = "notify" => Count("mutationCallback") = 1

\* C11: a pointer-up handled with a subject and the has-moved flag false (no
\* pointer-move was handled since the pointer-down) makes the hit test for
\* that subject, and when the element hit has a dropzone above it the subject
\* becomes the last child of the nearest one and the configured drop callback
\* is called with the pair.
C11_DropWithoutMove ==
    [][(ev'.type = "mouseup" /\ dragElement # Null /\ ~isDragging)
        => /\ Len(log') >= 1
           /\ log'[1].op = "elementFromPoint"
           /\ log'[1].arg = dragElement
           /\ MarkedAbove(children, log'[1].el) # {}
                => \E z \in Nodes :
                      /\ IsNearestDropzone(children, log'[1].el, z)
                      /\ children'[z] # << >>
                      /\ children'[z][Len(children'[z])] = dragElement
                      /\ \E i \in 1..Len(log') :
                            log'[i].op = "appendChild" /\ log'[i].el = dragElement
                               /\ log'[i].arg = z
                      /\ Truthy(dragEndCallback)
                            => \E i \in 1..Len(log') :
                                  log'[i].op = "dragEndCallback" /\ log'[i].el = dragElement
                                     /\ log'[i].arg = z]_vars

\* C11 witness: a was pressed and released over b1 with no move in between;
\* it is now the last child of b1 and the drop callback was called once.
C11_Witness ==
    /\ ev.type = "mouseup"
    /\ ~isDragging
    /\ Count("dragEndCallback") = 1
    /\ Count("uncaught") = 0
    /\ children["b1"] = <<"a">>
    /\ dragElement = Null

\* The task was a pointer-up with a subject, and its hit tests (entries of
\* lg) found no element with a dropzone above it in the tree ch.
NoDropzoneIn(type, lg, ch) ==
    /\ type = "mouseup"
    /\ \E i \in 1..Len(lg) : lg[i].op = "elementFromPoint"
    /\ \A i \in 1..Len(lg) :
          lg[i].op = "elementFromPoint" => MarkedAbove(ch, lg[i].el) = {}

NoDropzoneFound == NoDropzoneIn(ev.type, log, children)

\* C12: after a pointer-up that found no dropzone the subject is still
\* absolutely positioned, with the top and left of the drag.
C12_StaysPositioned ==
    NoDropzoneFound
        => \A i \in HitTests :
              /\ style[log[i].arg].position = "absolute"
              /\ style[log[i].arg].top # ""
              /\ style[log[i].arg].left # ""

\* C12 as amended: a pointer-up that finds no dropzone leaves the tree as it
\* is, so the subject stays a child of the parent it had during the drag, and
\* removes every inline style of the subject (position, top, left, width,
\* height and display), which puts it back into the flow of that parent.
C12_StaysInParentUnstyled ==
    [][(NoDropzoneIn(ev'.type, log', children) /\ dragElement # Null)
        => /\ children' = children
           /\ style' = [style EXCEPT ![dragElement] = EmptyStyle]
           /\ style[dragElement].position = "absolute" => style'[dragElement].position = ""
           /\ dragElement' = Null]_vars

\* C12 witness: a, dragged with a move and released over the body, is still
\* the first child of the body and has no inline style left.
C12_Witness ==
    /\ NoDropzoneFound
    /\ \E i \in HitTests : log[i].arg = "a" /\ log[i].el = Body
    /\ isDragging
    /\ children[Body] = <<"a", "b">>
    /\ style["a"] = EmptyStyle
    /\ dragElement = Null

\* C13: a pointer-move handled while the pointer is not pressed, or while no
\* subject is recorded, changes nothing and calls nothing; every call of the
\* move callback is made while pressed, with the recorded subject; and the
\* subject is only ever recorded by a pointer-down.
C13_IdleMoveIgnored ==
    [][/\ (ev'.type = "mousemove" /\ (~isMouseDown \/ dragElement = Null))
            => /\ UNCHANGED <<config, observer, session, children, style, listeners, pending>>
               /\ log' = << >>
       /\ ev'.type = "mousemove"
            => \A i \in 1..Len(log') :
                  log'[i].op = "dragMoveCallback"
                     => /\ isMouseDown
                        /\ dragElement # Null
                        /\ log'[i].el = dragElement
       /\ ev'.type # "mousemove"
            => \A i \in 1..Len(log') : log'[i].op # "dragMoveCallback"
       /\ dragElement' \notin {Null, dragElement} => ev'.type = "mousedown"]_vars

\* C13 witness: with a move callback configured, after a drag of a that moved
\* and ended in a drop, a pointer-move on a is handled while the pointer is
\* not pressed and no subject is recorded: nothing was called or changed.
C13_Witness ==
    /\ ev.type = "mousemove"
    /\ ev.target = "a"
    /\ Tracked(listeners, "a")
    /\ Truthy(dragMoveCallback)
    /\ ~isMouseDown
    /\ dragElement = Null
    /\ isDragging
    /\ ParentOf(children, "a") = "b"
    /\ style["a"] = EmptyStyle
    /\ log = << >>

\* C14: a pointer-up handled while no subject is recorded leaves the pressed
\* flag false and changes nothing else: no hit test, no reparenting, no style
\* change, no callback, and the has-moved flag keeps its value.
C14_IdleUpIgnored ==
    [][(ev'.type = "mouseup" /\ dragElement = Null)
        => /\ ~isMouseDown'
           /\ log' = << >>
           /\ isDragging' = isDragging
           /\ UNCHANGED <<config, observer, dragElement, dragElementRect,
                          startingMousePosition, children, style, listeners, pending>>]_vars

\* C14 witness: after a drag of a that moved and was dropped into b, a second
\* pointer-up on a, with a drop callback configured, did nothing; the
\* has-moved flag is still true.
C14_Witness ==
    /\ ev.type = "mouseup"
    /\ ev.target = "a"
    /\ Tracked(listeners, "a")
    /\ Truthy(dragEndCallback)
    /\ log = << >>
    /\ dragElement = Null
    /\ ~isMouseDown
    /\ isDragging
    /\ ParentOf(children, "a") = "b"

\* The number of listeners of the type on the element.
ListenerCount(ls, e, type) == Cardinality({i \in 1..Len(ls[e]) : ls[e][i][1] = type})

\* The elements a configure call matches, given the draggable name it leaves
\* (a configure call does not change the tree).
Matched(attr) == QuerySelectorAll(children, attr)

\* C15: every configure call adds one pointer-down, one pointer-up and one
\* pointer-move listener to each element it matches, on top of those the
\* element has.
C15_DuplicateListeners ==
    [][ev'.type = "configure"
        => \A e \in Matched(draggableAttribute') :
              \A type \in {"mousedown", "mouseup", "mousemove"} :
                 ListenerCount(listeners', e, type) = ListenerCount(listeners, e, type) + 1]_vars

\* C15 as amended: after a configure call every element it matched, and every
\* element matched by an earlier call (whatever the draggable name is now),
\* carries exactly one listener of each of the three types; no other element
\* carries any, and no call removes one.
C15_OneListenerEach ==
    [][ev'.type = "configure"
        => \A e \in Elems :
              listeners'[e] =
                 IF e \in Matched(draggableAttribute') \/ Tracked(listeners, e)
                 THEN <<(<<"mousedown", "dragStart">>), (<<"mouseup", "dragEnd">>),
                        (<<"mousemove", "dragMove">>)>>
                 ELSE << >>]_vars

\* C15 witness: two configure calls, both with data-drag as the draggable
\* name, have matched a twice: a carries three listeners, not six.
C15_Witness ==
    /\ observer = 2
    /\ ev.type = "configure"
    /\ draggableAttribute = "data-drag"
    /\ ~Assigned("draggableAttribute")
    /\ "a" \in Matched(draggableAttribute)
    /\ Len(listeners["a"]) = 3
    /\ ListenerCount(listeners, "a", "mousedown") = 1

\* C16: a delivery of mutation records, wherever it falls between the pointer
\* handlers (before a drag, while the pointer is pressed on a subject, after
\* the drop), leaves the session, the configuration, the tree and every
\* inline style as they are; its one effect is that the top-level added
\* elements with the draggable marker that had no listeners have the three of
\* addEventListeners.  A delivery between two listeners of one pointer event
\* likewise changes the listeners of no element but one the event reparented.
C16_WatcherOnlyTracks ==
    [][/\ ev'.type = "notify"
            => /\ UNCHANGED <<config, observer, session, children, style>>
               /\ \A e \in Nodes :
                     listeners'[e] =
                        IF /\ ~Tracked(listeners, e)
                           /\ e \in TopLevelAdded
                           /\ draggableAttribute \in Attrs(e)
                        THEN <<(<<"mousedown", "dragStart">>), (<<"mouseup", "dragEnd">>),
                               (<<"mousemove", "dragMove">>)>>
                        ELSE listeners[e]
       /\ ev'.type \in {"mousedown", "mousemove", "mouseup"}
            => /\ UNCHANGED <<config, observer>>
               /\ \A e \in Nodes :
                     \/ listeners'[e] = listeners[e]
                     \/ /\ listeners[e] = << >>
                        /\ \E i \in 1..Len(log') :
                              log'[i].op = "appendChild" /\ log'[i].el = e
                        /\ \E i \in 1..Len(log') : log'[i].op = "mutationCallback"
                        /\ listeners'[e] = <<(<<"mousedown", "dragStart">>),
                                             (<<"mouseup", "dragEnd">>),
                                             (<<"mousemove", "dragMove">>)>>]_vars

\* C16 witness: while a was being dragged (pressed at (200, 200), a move
\* handled there) the page inserted n, and the record was delivered: n is
\* tracked now, and the drag of a goes on as it was.
C16_Witness ==
    /\ ev.type = "notify"
    /\ dragElement = "a"
    /\ isMouseDown
    /\ isDragging
    /\ dragElementRect = <<50, 50>>
    /\ startingMousePosition = <<100 * MaxCoord, 200>>
    /\ style["a"].position = "absolute"
    /\ style["a"].width = "50px"
    /\ style["a"].top = "175px"
    /\ ParentOf(children, "n") = Body
    /\ Tracked(listeners, "n")
    /\ ~Tracked(listeners, "n1")
    /\ NoPending

\* C17: when the subject is reparented, and when the drop callback is called,
\* the subject's inline display is no longer "none".
C17_ShownAtDrop ==
    \A i \in 1..Len(log) :
       log[i].op \in {"appendChild", "dragEndCallback"} => log[i].display # "none"

\* C18: after every task the session variables agree: the pointer is pressed
\* exactly when a subject is recorded, exactly when a rectangle is recorded,
\* exactly when a starting position is recorded.
C18_SessionConsistent ==
    /\ isMouseDown <=> dragElement # Null
    /\ dragElement # Null <=> dragElementRect # << >>
    /\ dragElementRect # << >> <=> startingMousePosition # << >>

\* The element carries one of the inline overrides of dragStart.
HasOverrides(st, e) ==
    \/ st[e].width # ""
    \/ st[e].height # ""
    \/ st[e].top # ""
    \/ st[e].left # ""
    \/ st[e].position # ""

\* C19: after every task only the recorded subject carries inline overrides
\* of a drag start; with no subject recorded, no element carries any.
C19_NoStyleLeak ==
    \A e \in Elems : HasOverrides(style, e) => e = dragElement

\* C20: at a pointer-up the element hit is never the subject or inside it,
\* so the dropzone is neither; appendChild is never refused; and afterwards
\* every element has the one place in the tree it had or, for the subject,
\* one place under the dropzone, with the body above every element that was
\* in the document and no element above itself.
C20_TreePreserved ==
    [][ev'.type = "mouseup"
        => /\ \A i \in 1..Len(log') :
                 /\ log'[i].op = "elementFromPoint"
                       => log'[i].el \notin Subtree(children, log'[i].arg)
                 /\ log'[i].op = "appendChild"
                       => /\ log'[i].arg \notin Subtree(children, log'[i].el)
                          /\ Places(children', log'[i].el) = 1
                          /\ log'[i].el \in Range(children'[log'[i].arg])
                 /\ log'[i].op = "uncaught" => log'[i].arg # "appendChild"
           /\ \A e \in Elems :
                 /\ Places(children', e) = Places(children, e)
                 /\ Places(children', e) <= 1
                 /\ e \notin Above(children', ParentOf(children', e), Cardinality(Nodes))
                 /\ Body \in Above(children, e, Cardinality(Nodes))
                       => Body \in Above(children', e, Cardinality(Nodes))]_vars

\* C20 witness: with data-drag naming the draggables and the dropzones, a
\* (which contains the dropzone a1, and is one itself) was released with a
\* or a1 topmost under the pointer: the hit test found the body behind the
\* hidden a, and a was put neither into itself nor into its own child.
C20_Witness ==
    /\ ev.type = "mouseup"
    /\ dropzoneAttribute = "data-drag"
    /\ draggableAttribute = "data-drag"
    /\ \E i \in HitTests : log[i].arg = "a" /\ log[i].el = Body
    /\ Count("appendChild") = 0
    /\ children["a"] = <<"a1">>
    /\ dragElement = Null

====
